---- MODULE Spec2Model ----
(***************************************************************************)
(* Model of ring<T, Allocator> (src/src/ring.hpp): a circular buffer over  *)
(* one block of raw storage, with the pointers data_end_, lower_bond_ and  *)
(* upper_bond_ kept as addresses, and the element counters of the test     *)
(* harness (src/test/basics.cpp) kept as their difference.                 *)
(***************************************************************************)
EXTENDS Integers, Sequences, FiniteSets

\* ---------------------------------------------------------------- bounds
MaxCap  == 3      \* largest capacity passed to ring(capacity) and reserve
MaxPush == 4      \* total number of elements ever pushed in one behaviour
MaxJunk == 2      \* an indeterminate value reads as one of 1..MaxJunk

\* ------------------------------------------------------------- constants
NULL == 0         \* nullptr
Nil  == 0         \* a slot of raw storage holding no constructed T
BadAlloc == -1    \* allocator.allocate(size) throws instead of returning

\* The ring never inspects an element, so the pushed elements are told
\* apart by numbering them in push order, as the harness does with
\* obj{ data_counter_++ }.
Values == 1..MaxPush

\* What reading an unconstructed slot may yield.
Indeterminate == 1..MaxJunk

\* The element T{ begin++ } builds in push(begin, end): it is constructed
\* from the address, not from the pointee.
FromAddress == MaxPush + 1

\* The heap hands out two blocks; a block at base b spans b .. b + MaxCap.
BlockAddrs == { MaxCap + 1, 2 * (MaxCap + 1) }

VARIABLES
    capacity_,      \* std::size_t capacity_
    data_end_,      \* T* data_end_
    lower_bond_,    \* T* lower_bond_
    upper_bond_,    \* T* upper_bond_
    mem,            \* the owned block: offset -> element value, or Nil
    blocks,         \* base addresses currently allocated
    alive,          \* FALSE once ~ring() has run
    ub,             \* TRUE once a call has read or destroyed an unconstructed slot
    outstanding,    \* ctor_counter_ - dtor_counter_ of the element type
    pushed,         \* every value passed to push (singly or in a range), in call order
    popped,         \* every value returned by pop, in call order
    discarded,      \* elements reserve destroyed instead of relocating
    last            \* the last call: [op, arg, ret]

vars == << capacity_, data_end_, lower_bond_, upper_bond_, mem, blocks,
           alive, ub, outstanding, pushed, popped, discarded, last >>

\* The ring object as a record of its members and its storage.
this == [ capacity_   |-> capacity_,
          data_end_   |-> data_end_,
          lower_bond_ |-> lower_bond_,
          upper_bond_ |-> upper_bond_,
          mem         |-> mem ]

\* ------------------------------------------------------------- helpers
\* data_end_ - capacity_: the first slot of the block.
Base(r) == r.data_end_ - r.capacity_

\* The addresses a, a+1, ..., b-1 in increasing order.
Range(a, b) == [ i \in 1..(b - a) |-> a + i - 1 ]

RawStorage(n) == [ i \in 0..(n - 1) |-> Nil ]

\* ------------------------------------------------------------- queries
full(r) == r.upper_bond_ = r.lower_bond_

empty(r) == r.upper_bond_ = r.data_end_

capacity(r) == r.capacity_

size(r) ==
    IF r.upper_bond_ # r.data_end_
    THEN IF r.upper_bond_ > r.lower_bond_
         THEN r.upper_bond_ - r.lower_bond_
         ELSE r.upper_bond_ + r.capacity_ - r.lower_bond_
    ELSE 0

\* data(): two (begin, end) pairs.
data(r) ==
    IF r.lower_bond_ > r.upper_bond_
    THEN << << r.lower_bond_, r.data_end_ >>,
            << r.data_end_ - r.capacity_, r.upper_bond_ >> >>
    ELSE << << r.lower_bond_, r.upper_bond_ >>,
            << NULL, NULL >> >>

\* Offsets of the slots the ring takes for live, and those among them that
\* hold no constructed element: reading one yields an indeterminate value.
LiveOffsets(r) ==
    { (r.lower_bond_ - Base(r) + k) % r.capacity_ : k \in 0..(size(r) - 1) }

Uninit(r, S) == { i \in S : r.mem[i] = Nil }

Garbage(r, S) == [ Uninit(r, S) -> Indeterminate ]

\* *p for a slot address p; g supplies the value of an unconstructed slot.
Read(r, p, g) ==
    LET i == p - Base(r)
    IN  IF r.mem[i] = Nil THEN g[i] ELSE r.mem[i]

\* ---------------------------------------------------------- operations
\* unset_empty() without line 231: lower_bond_ keeps its old position.
unset_empty_keeps_lower(r) ==
    IF r.upper_bond_ = r.data_end_
    THEN [ r EXCEPT !.upper_bond_ = r.data_end_ - r.capacity_ ]
    ELSE r

unset_empty(r) ==
    IF r.upper_bond_ = r.data_end_
    THEN [ r EXCEPT !.upper_bond_ = r.data_end_ - r.capacity_,
                    !.lower_bond_ = r.data_end_ - r.capacity_ ]
    ELSE r

\* The placement new without the wrap of lines 70-73.
EmplaceNoWrap(r, v) ==
    [ r EXCEPT !.mem[r.upper_bond_ - Base(r)] = v,
               !.upper_bond_ = r.upper_bond_ + 1 ]

\* new (upper_bond_++) T{ v }, then the wrap of upper_bond_.
Emplace(r, v) ==
    LET w == [ r EXCEPT !.mem[r.upper_bond_ - Base(r)] = v,
                        !.upper_bond_ = r.upper_bond_ + 1 ]
    IN  IF w.upper_bond_ = w.data_end_
        THEN [ w EXCEPT !.upper_bond_ = w.data_end_ - w.capacity_ ]
        ELSE w

push(r, item) == Emplace(unset_empty(r), item)

RECURSIVE PushLoop(_, _)
PushLoop(r, n) ==
    IF n = 0 THEN r ELSE PushLoop(Emplace(r, FromAddress), n - 1)

\* push(begin, end) with end - begin = n.
push_range(r, n) == PushLoop(unset_empty(r), n)

\* pop() without the wrap of lines 103-106.
pop_no_wrap(r, g) ==
    LET item == Read(r, r.lower_bond_, g)
        d == [ r EXCEPT !.mem[r.lower_bond_ - Base(r)] = Nil,
                        !.lower_bond_ = r.lower_bond_ + 1 ]
        e == IF d.lower_bond_ = d.upper_bond_
             THEN [ d EXCEPT !.upper_bond_ = d.data_end_ ]
             ELSE d
    IN  [ ring |-> e, item |-> item ]

\* pop(): the ring afterwards and the item returned.
pop(r, g) ==
    LET item == Read(r, r.lower_bond_, g)
        d == [ r EXCEPT !.mem[r.lower_bond_ - Base(r)] = Nil,
                        !.lower_bond_ = r.lower_bond_ + 1 ]
        w == IF d.lower_bond_ = d.data_end_
             THEN [ d EXCEPT !.lower_bond_ = d.data_end_ - d.capacity_ ]
             ELSE d
        e == IF w.lower_bond_ = w.upper_bond_
             THEN [ w EXCEPT !.upper_bond_ = w.data_end_ ]
             ELSE w
    IN  [ ring |-> e, item |-> item ]

\* Line 190 with upper_bond_ = data in place of data + size.
EmptyUpperNoSize(newdata, sz) == newdata

\* upper_bond_ after reserve on a ring that holds nothing (line 190).
EmptyUpper(newdata, sz) == newdata + sz

\* Line 139 with the test dropped: every call reallocates.
SameCapacityNever(r, sz) == FALSE

\* The test of line 139, negated: nothing to do.
SameCapacity(r, sz) == r.capacity_ = sz

\* The ring left behind when allocate throws at line 141, had the
\* truncation been done before the allocation.
OnBadAllocTruncated(r) == [ r EXCEPT !.upper_bond_ = r.data_end_ ]

\* The ring left behind when allocate throws at line 141: no member has
\* been assigned yet.
OnBadAlloc(r) == r

\* reserve(size) with allocator.allocate(size) returning data (NULL for
\* size 0) or throwing (BadAlloc): the ring afterwards, the number of
\* elements destroyed without being relocated, and the block released.
reserve(r, sz, newdata, g) ==
    IF SameCapacity(r, sz)
    THEN [ ring |-> r, destroyed |-> 0, released |-> NULL, allocated |-> NULL ]
    ELSE IF newdata = BadAlloc
    THEN [ ring |-> OnBadAlloc(r), destroyed |-> 0, released |-> NULL,
           allocated |-> NULL ]
    ELSE
    LET data_begin == r.data_end_ - r.capacity_
        lo == r.lower_bond_
        up == r.upper_bond_
        first_upper_bond == IF lo < up THEN up ELSE r.data_end_
        cut1 == first_upper_bond - lo > sz
        cut2 == ~cut1 /\ lo >= up /\ r.capacity_ - (lo - up) > sz
        \* lines 149-160: drop the second run, then the end of the first
        dropped1 == (IF first_upper_bond # up THEN up - data_begin ELSE 0)
                    + (first_upper_bond - (lo + sz))
        \* lines 165-169: drop the end of the second run
        second_upper_bond == lo - (r.capacity_ - sz)
        dropped2 == up - second_upper_bond
        up1 == IF cut1 THEN lo + sz
               ELSE IF cut2 THEN second_upper_bond ELSE up
        first1 == IF cut1 THEN lo + sz ELSE first_upper_bond
        \* lines 171-186: relocate the first run, then the second
        run1 == Range(lo, first1)
        lo2 == IF lo < first1 THEN first1 ELSE lo
        lo3 == IF lo2 > up1 THEN data_begin ELSE lo2
        run2 == Range(lo3, up1)
        moved == run1 \o run2
        it == newdata + Len(moved)
        newmem == [ i \in 0..(sz - 1) |->
                      IF i < Len(moved) THEN Read(r, moved[i + 1], g) ELSE Nil ]
        upper == IF up # r.data_end_ THEN it ELSE EmptyUpper(newdata, sz)
    IN  [ ring |-> [ capacity_   |-> sz,
                    data_end_   |-> newdata + sz,
                    lower_bond_ |-> newdata,
                    upper_bond_ |-> upper,
                    mem         |-> IF up # r.data_end_
                                    THEN newmem ELSE RawStorage(sz) ],
          destroyed |-> IF up = r.data_end_ THEN 0
                        ELSE IF cut1 THEN dropped1
                        ELSE IF cut2 THEN dropped2 ELSE 0,
          released |-> data_begin,
          allocated |-> newdata ]

\* ~ring(): the members afterwards and the number of elements destroyed.
dtor(r) ==
    IF r.upper_bond_ # r.data_end_
    THEN [ ring |-> [ r EXCEPT !.lower_bond_ = r.upper_bond_,
                               !.mem = [ i \in DOMAIN r.mem |->
                                           IF i \in LiveOffsets(r)
                                           THEN Nil ELSE r.mem[i] ] ],
           destroyed |-> size(r) ]
    ELSE [ ring |-> r, destroyed |-> 0 ]

\* allocator.allocate(n) for n > 0: any block not in use.
Allocate(held) == BlockAddrs \ held

\* ------------------------------------------------------------- actions
Install(r) ==
    /\ capacity_'   = r.capacity_
    /\ data_end_'   = r.data_end_
    /\ lower_bond_' = r.lower_bond_
    /\ upper_bond_' = r.upper_bond_
    /\ mem'         = r.mem

Call(op, arg, ret) == [ op |-> op, arg |-> arg, ret |-> ret ]

\* ring() and ring(capacity)
Init ==
    /\ \/ /\ capacity_ = 0
          /\ data_end_ = NULL
          /\ lower_bond_ = NULL
          /\ upper_bond_ = NULL
          /\ blocks = {}
       \/ \E c \in 1..MaxCap, b \in Allocate({}) :
            /\ capacity_ = c
            /\ data_end_ = b + c
            /\ lower_bond_ = b
            /\ upper_bond_ = b + c
            /\ blocks = { b }
    /\ mem = RawStorage(capacity_)
    /\ alive = TRUE
    /\ ub = FALSE
    /\ outstanding = 0
    /\ pushed = << >>
    /\ popped = << >>
    /\ discarded = 0
    /\ last = Call("ctor", capacity_, 0)

Push ==
    LET item == Len(pushed) + 1 IN
        /\ alive /\ ~ub
        /\ ~full(this)
        /\ Len(pushed) < MaxPush
        /\ Install(push(this, item))
        /\ outstanding' = outstanding + 1
        /\ pushed' = Append(pushed, item)
        /\ last' = Call("push", item, 0)
        /\ UNCHANGED << blocks, alive, ub, popped, discarded >>

PushRange ==
    \E n \in 0..MaxCap :
        /\ alive /\ ~ub
        /\ n <= capacity(this) - size(this)
        /\ Len(pushed) + n <= MaxPush
        /\ Install(push_range(this, n))
        /\ outstanding' = outstanding + n
        /\ pushed' = pushed \o [ i \in 1..n |-> Len(pushed) + i ]
        /\ last' = Call("push_range", n, 0)
        /\ UNCHANGED << blocks, alive, ub, popped, discarded >>

\* The item is move-constructed, the slot destroyed, and the returned
\* object destroyed by the caller once read (src/test/basics.cpp:101).
Pop ==
    /\ alive /\ ~ub
    /\ ~empty(this)
    /\ Len(popped) < MaxPush
    /\ \E g \in Garbage(this, { lower_bond_ - Base(this) }) :
        LET res == pop(this, g) IN
        /\ Install(res.ring)
        /\ outstanding' = outstanding + 1 - 2
        /\ popped' = Append(popped, res.item)
        /\ last' = Call("pop", 0, res.item)
        /\ ub' = (DOMAIN g # {})
        /\ UNCHANGED << blocks, alive, pushed, discarded >>

Reserve ==
    /\ alive /\ ~ub
    /\ \E sz \in 0..MaxCap :
       \E newdata \in (IF sz = 0 \/ SameCapacity(this, sz) THEN { NULL }
                       ELSE Allocate(blocks) \cup { BadAlloc }) :
       \E g \in Garbage(this, IF SameCapacity(this, sz) \/ newdata = BadAlloc
                              THEN {} ELSE LiveOffsets(this)) :
        LET res == reserve(this, sz, newdata, g) IN
        /\ discarded + res.destroyed <= MaxPush
        /\ Install(res.ring)
        /\ blocks' = (blocks \cup ({ res.allocated } \ { NULL }))
                        \ { res.released }
        /\ outstanding' = outstanding - res.destroyed
        /\ discarded' = discarded + res.destroyed
        /\ last' = Call("reserve", sz, IF newdata = BadAlloc THEN BadAlloc ELSE 0)
        /\ ub' = (DOMAIN g # {})
        /\ UNCHANGED << alive, pushed, popped >>

Destroy ==
    LET res == dtor(this) IN
    /\ alive /\ ~ub
    /\ alive' = FALSE
    /\ ub' = (Uninit(this, LiveOffsets(this)) # {})
    /\ Install(res.ring)
    /\ blocks' = {}
    /\ outstanding' = outstanding - res.destroyed
    /\ last' = Call("dtor", 0, 0)
    /\ UNCHANGED << pushed, popped, discarded >>

\* push(item) called although full(): nothing in lines 64-74 tests it.
\* The element under upper_bond_ is written over without being destroyed;
\* at capacity 0 the placement new writes through a null pointer.
PushWhenFull ==
    LET item == Len(pushed) + 1 IN
        /\ alive /\ ~ub
        /\ full(this)
        /\ Len(pushed) < MaxPush
        /\ IF capacity_ = 0
           THEN /\ Install(unset_empty(this))
                /\ ub' = TRUE
                /\ UNCHANGED << outstanding, pushed >>
           ELSE /\ Install(push(this, item))
                /\ outstanding' = outstanding + 1
                /\ pushed' = Append(pushed, item)
                /\ ub' = ub
        /\ last' = Call("push", item, 0)
        /\ UNCHANGED << blocks, alive, popped, discarded >>

\* push(begin, end) called with more items than capacity() - size():
\* nothing in lines 78-89 tests it.
PushRangeOver ==
    \E n \in 1..(MaxCap + 1) :
        /\ alive /\ ~ub
        /\ n > capacity(this) - size(this)
        /\ Len(pushed) + n <= MaxPush
        /\ IF capacity_ = 0
           THEN /\ Install(unset_empty(this))
                /\ ub' = TRUE
                /\ UNCHANGED << outstanding, pushed >>
           ELSE /\ Install(push_range(this, n))
                /\ outstanding' = outstanding + n
                /\ pushed' = pushed \o [ i \in 1..n |-> Len(pushed) + i ]
                /\ ub' = ub
        /\ last' = Call("push_range", n, 0)
        /\ UNCHANGED << blocks, alive, popped, discarded >>

\* pop() called although empty(): nothing in lines 99-112 tests it. The
\* slot under lower_bond_ is moved from and destroyed whatever it holds;
\* at capacity 0 lower_bond_ is null.
PopWhenEmpty ==
    /\ alive /\ ~ub
    /\ empty(this)
    /\ Len(popped) < MaxPush
    /\ IF capacity_ = 0
       THEN /\ ub' = TRUE
            /\ last' = Call("pop", 0, 0)
            /\ UNCHANGED << capacity_, data_end_, lower_bond_, upper_bond_,
                            mem, outstanding, popped >>
       ELSE \E g \in Garbage(this, { lower_bond_ - Base(this) }) :
            LET res == pop(this, g) IN
            /\ Install(res.ring)
            /\ outstanding' = outstanding + 1 - 2
            /\ popped' = Append(popped, res.item)
            /\ last' = Call("pop", 0, res.item)
            /\ ub' = (DOMAIN g # {})
    /\ UNCHANGED << blocks, alive, pushed, discarded >>

\* Every operation of the interface.
Next == Push \/ PushRange \/ Pop \/ Reserve \/ Destroy

Spec == Init /\ [][Next]_vars

\* Single-element push, pop, reserve and destruction.
NextNoRange == Push \/ Pop \/ Reserve \/ Destroy

SpecNoRange == Init /\ [][NextNoRange]_vars

\* Single-element push and pop on a constructed ring.
NextPushPop == Push \/ Pop

SpecPushPop == Init /\ [][NextPushPop]_vars

\* Push and pop, called inside and outside their preconditions.
NextMisuse == Push \/ Pop \/ PushWhenFull \/ PushRangeOver \/ PopWhenEmpty

SpecMisuse == Init /\ [][NextMisuse]_vars

\* ------------------------------------------------------------ properties
\* The values successive pops would return from r, front first (Nil for a
\* slot that holds no element).
RECURSIVE PopOrder(_)
PopOrder(r) ==
    IF empty(r) THEN << >>
    ELSE LET res == pop(r, [ i \in DOMAIN r.mem |-> Nil ])
         IN  << res.item >> \o PopOrder(res.ring)

\* The live region occupies the end and the start of the storage.
Wrapped(r) ==
    /\ ~empty(r)
    /\ r.lower_bond_ >= r.upper_bond_
    /\ r.upper_bond_ > Base(r)

\* Length and contents of one (begin, end) pair of data().
SpanLen(s) == IF s[1] = NULL THEN 0 ELSE s[2] - s[1]

SpanElems(r, s) == [ i \in 1..SpanLen(s) |-> r.mem[s[1] + i - 1 - Base(r)] ]

\* pushed, not yet popped and not discarded by reserve
LiveCount == Len(pushed) - Len(popped) - discarded

\* C1: with single pushes and pops only, the k-th pop returns the value of
\* the k-th push: the values popped are a prefix of the values pushed.
C1_Fifo ==
    /\ Len(popped) <= Len(pushed)
    /\ popped = SubSeq(pushed, 1, Len(popped))

\* C1 witness: two pops have returned and the live region wraps.
C1_Witness ==
    /\ last.op = "pop"
    /\ Len(popped) >= 2
    /\ Wrapped(this)

\* C2 as claimed: reserve(n) with n < size() leaves size() = n,
\* capacity() = n and the n oldest elements in their order, discarding
\* the size() - n newest.
C2_Claim ==
    [][ (last'.op = "reserve" /\ last'.ret # BadAlloc /\ alive /\ ~ub
         /\ last'.arg < size(this))
        => /\ size(this') = last'.arg
           /\ capacity(this') = last'.arg
           /\ PopOrder(this') = SubSeq(PopOrder(this), 1, last'.arg)
           /\ discarded' - discarded = size(this) - last'.arg ]_vars

\* C3 as claimed: reserve(n) with n >= size() keeps size(), makes
\* capacity() = n and leaves the pop order as it was.
C3_Claim ==
    [][ (last'.op = "reserve" /\ last'.ret # BadAlloc /\ alive /\ ~ub
         /\ last'.arg >= size(this))
        => /\ size(this') = size(this)
           /\ capacity(this') = last'.arg
           /\ PopOrder(this') = PopOrder(this) ]_vars

\* C4: with single pushes and pops only, size() is the number of pushes
\* minus the number of pops.
C4_SizeLaw == size(this) = Len(pushed) - Len(popped)

\* C4 witness: elements have been popped and the live region wraps.
C4_Witness ==
    /\ Wrapped(this)
    /\ Len(popped) >= 1
    /\ size(this) >= 2

\* C5 as claimed: on a non-empty ring the spans of data() have total
\* length size() and list the elements in pop order; two non-empty spans
\* split at the storage boundary when the region wraps, else one.
C5_Claim ==
    (alive /\ ~ub /\ ~empty(this)) =>
        LET d == data(this) IN
        /\ SpanLen(d[1]) + SpanLen(d[2]) = size(this)
        /\ SpanElems(this, d[1]) \o SpanElems(this, d[2]) = PopOrder(this)
        /\ Wrapped(this) => /\ SpanLen(d[1]) > 0 /\ SpanLen(d[2]) > 0
                            /\ d[1][2] = data_end_
                            /\ d[2][1] = Base(this)
        /\ ~Wrapped(this) => SpanLen(d[1]) > 0 /\ SpanLen(d[2]) = 0

\* C6 as claimed: 0 <= size() <= capacity() and the number of live
\* elements is at most capacity().
C6_Claim ==
    (alive /\ ~ub) =>
        /\ 0 <= size(this)
        /\ size(this) <= capacity(this)
        /\ LiveCount <= capacity(this)

\* C7 as claimed: at capacity 0 the ring is empty and full, has size 0,
\* holds no storage, and no element is left undestroyed.
C7_Claim ==
    (alive /\ ~ub /\ capacity(this) = 0) =>
        /\ empty(this) /\ full(this)
        /\ size(this) = 0
        /\ blocks = {}
        /\ outstanding = 0

\* C8 as claimed: destructions never exceed constructions, and once the
\* ring is destroyed the two counts are equal.
C8_Claim ==
    /\ outstanding >= 0
    /\ ~alive => outstanding = 0

\* C9: reserve(n) on a ring that holds no element gives capacity() = n,
\* size() = 0, empty(), and full() exactly when n = 0.
C9_ReserveOnEmpty ==
    [][ (last'.op = "reserve" /\ last'.ret # BadAlloc /\ alive /\ ~ub
         /\ outstanding = 0)
        => /\ capacity(this') = last'.arg
           /\ size(this') = 0
           /\ empty(this')
           /\ full(this') <=> (last'.arg = 0) ]_vars

\* C9 witness: a reserve to a positive capacity has run on a ring that
\* pops had emptied.
C9_Witness ==
    /\ last.op = "reserve" /\ last.ret # BadAlloc
    /\ outstanding = 0 /\ discarded = 0
    /\ Len(popped) >= 1
    /\ capacity(this) > 0

\* C10: empty() iff size() = 0, full() iff size() = capacity(), and with
\* capacity() > 0 never both.
C10_Queries ==
    alive =>
        /\ empty(this) <=> (size(this) = 0)
        /\ full(this) <=> (size(this) = capacity(this))
        /\ capacity(this) > 0 => ~(empty(this) /\ full(this))

\* C10 witness: a full ring whose head is not at the start of the storage.
C10_Witness ==
    /\ alive
    /\ capacity(this) > 0
    /\ full(this)
    /\ lower_bond_ > Base(this)

\* The ring after single-element pushes of the items, in order.
RECURSIVE SinglePushes(_, _)
SinglePushes(r, items) ==
    IF items = << >> THEN r
    ELSE SinglePushes(push(r, Head(items)), Tail(items))

\* C11 as claimed: push(begin, end) of a range that fits leaves size(),
\* empty(), full() and the pop order as single pushes of the range
\* elements in range order would.
C11_Claim ==
    [][ (last'.op = "push_range" /\ alive /\ ~ub)
        => LET items == SubSeq(pushed', Len(pushed) + 1, Len(pushed'))
               one == SinglePushes(this, items)
           IN  /\ size(this') = size(one)
               /\ empty(this') = empty(one)
               /\ full(this') = full(one)
               /\ PopOrder(this') = PopOrder(one) ]_vars

\* C12: when the allocation in reserve(n) fails, the caller gets the
\* failure and the ring, its storage and its elements are as before the
\* call.
C12_BadAllocKeepsState ==
    [][ (last'.op = "reserve" /\ last'.ret = BadAlloc)
        => /\ this' = this
           /\ blocks' = blocks
           /\ outstanding' = outstanding
           /\ discarded' = discarded
           /\ alive' = alive /\ ub' = ub ]_vars

\* C12 witness: the allocation failed on a ring whose live region wraps.
C12_Witness ==
    /\ last.op = "reserve" /\ last.ret = BadAlloc
    /\ last.arg < size(this)
    /\ Wrapped(this)

\* C13 as claimed: push while full(), pop while empty() and push(range)
\* with more items than capacity() - size() end in an error outcome (a
\* negative ret: the call does not return normally) and leave head, tail,
\* capacity and the stored elements unchanged.
C13_Claim ==
    [][ ( /\ alive /\ ~ub
          /\ \/ last'.op = "push" /\ full(this)
             \/ last'.op = "pop" /\ empty(this)
             \/ last'.op = "push_range"
                /\ last'.arg > capacity(this) - size(this) )
        => /\ last'.ret < 0
           /\ lower_bond_' = lower_bond_
           /\ upper_bond_' = upper_bond_
           /\ capacity_' = capacity_
           /\ mem' = mem ]_vars

\* C14: reserve(capacity()) allocates nothing and leaves capacity, head,
\* tail, the storage block and every stored element as they were.
C14_ReserveSameCapacity ==
    [][ (last'.op = "reserve" /\ last'.arg = capacity_)
        => /\ last'.ret = 0
           /\ this' = this
           /\ blocks' = blocks
           /\ outstanding' = outstanding
           /\ discarded' = discarded
           /\ ub' = ub ]_vars

\* C14 witness: reserve(capacity()) has returned on a ring whose live
\* region wraps (a reserve to another capacity leaves it unwrapped).
C14_Witness ==
    /\ last.op = "reserve" /\ last.ret = 0
    /\ last.arg = capacity_
    /\ Wrapped(this)
    /\ size(this) < capacity_

\* C15 as claimed: the tail is the empty sentinel exactly when no element
\* is live; when it is not, head = tail exactly when the number of live
\* elements equals the capacity; and head is a position of the storage
\* whenever the capacity is positive.
C15_Claim ==
    (alive /\ ~ub) =>
        /\ (upper_bond_ = data_end_) <=> (LiveCount = 0)
        /\ (upper_bond_ # data_end_)
              => ((lower_bond_ = upper_bond_) <=> (LiveCount = capacity_))
        /\ (capacity_ > 0)
              => (Base(this) <= lower_bond_ /\ lower_bond_ < data_end_)

\* Offsets of the slots that hold a constructed element.
Constructed(r) == { i \in DOMAIN r.mem : r.mem[i] # Nil }

\* C16 as claimed: after every operation the constructed slots are exactly
\* the live interval [head, tail) modulo capacity, no operation destroys or
\* reads a slot that holds no element, and a push constructs its element
\* in a slot that holds none.
C16_Claim ==
    [][ (alive /\ ~ub)
        => /\ ~ub'
           /\ alive' => Constructed(this') = LiveOffsets(this')
           /\ (last'.op = "push")
                 => LET r == unset_empty(this)
                    IN  r.mem[r.upper_bond_ - Base(r)] = Nil ]_vars

\* C17 as claimed: a reserve(n) with n # capacity() that returns leaves
\* head at offset 0 of the new storage and the m = min(old live count, n)
\* oldest elements, front first, in slots [0, m) and nowhere else; the old
\* storage is released, each element it held moved out or destroyed.
C17_Claim ==
    [][ (last'.op = "reserve" /\ last'.ret = 0 /\ last'.arg # capacity_
         /\ alive /\ ~ub)
        => LET n == last'.arg
               m == IF LiveCount < n THEN LiveCount ELSE n
           IN  /\ n > 0 => lower_bond_' = Base(this')
               /\ Constructed(this') = 0..(m - 1)
               /\ Len(PopOrder(this)) >= m
               /\ [ i \in 1..m |-> mem'[i - 1] ] = SubSeq(PopOrder(this), 1, m)
               /\ capacity_ > 0 => Base(this) \notin blocks'
               /\ Cardinality(Constructed(this))
                     = m + (discarded' - discarded) ]_vars

\* C18: a pop that removes the last element leaves the ring in the empty
\* sentinel state wherever head was, and a push on an empty ring writes
\* its element at offset 0 with head at offset 0, after which size() is 1
\* and pop returns the pushed value.
C18_EmptyReset ==
    [][ /\ (last'.op = "pop" /\ size(this) = 1)
            => /\ upper_bond_' = data_end_'
               /\ empty(this') /\ size(this') = 0
        /\ (last'.op = "push" /\ empty(this))
            => /\ lower_bond_' = Base(this')
               /\ mem'[0] = last'.arg
               /\ Constructed(this') = { 0 }
               /\ size(this') = 1
               /\ PopOrder(this') = << last'.arg >> ]_vars

\* C18 witness: the ring was emptied by a pop with head away from offset
\* 0, and the push after it has run.
C18_Witness ==
    /\ last.op = "push"
    /\ capacity_ = MaxCap
    /\ Len(pushed) = Len(popped) + 1
    /\ Len(popped) = 2
    /\ lower_bond_ = Base(this)

\* The state of the ring's state machine, by size() and capacity().
State(r) ==
    IF size(r) = 0 THEN "Empty"
    ELSE IF size(r) = capacity(r) THEN "Full"
    ELSE "PartiallyFull"

\* C19 as claimed: at every capacity > 0 a push takes Empty to
\* PartiallyFull or PartiallyFull to Full, a pop takes Full to
\* PartiallyFull or PartiallyFull to Empty, and no other push or pop
\* transition occurs.
C19_Claim ==
    [][ (capacity_ > 0 /\ alive /\ ~ub)
        => /\ (last'.op = "push")
               => << State(this), State(this') >>
                     \in { << "Empty", "PartiallyFull" >>,
                           << "PartiallyFull", "Full" >> }
           /\ (last'.op = "pop")
               => << State(this), State(this') >>
                     \in { << "Full", "PartiallyFull" >>,
                           << "PartiallyFull", "Empty" >> } ]_vars

\* C19: at every capacity > 0 a push takes Empty to PartiallyFull (to
\* Full at capacity 1) and PartiallyFull to PartiallyFull or Full; a pop
\* takes Full to PartiallyFull (to Empty at capacity 1) and PartiallyFull
\* to PartiallyFull or Empty; no other push or pop transition occurs.
C19_Transitions ==
    [][ (capacity_ > 0 /\ alive /\ ~ub)
        => /\ (last'.op = "push")
               => << State(this), State(this') >>
                     \in { << "Empty", IF capacity_ = 1 THEN "Full"
                                       ELSE "PartiallyFull" >>,
                           << "PartiallyFull", "PartiallyFull" >>,
                           << "PartiallyFull", "Full" >> }
           /\ (last'.op = "pop")
               => << State(this), State(this') >>
                     \in { << "Full", IF capacity_ = 1 THEN "Empty"
                                      ELSE "PartiallyFull" >>,
                           << "PartiallyFull", "PartiallyFull" >>,
                           << "PartiallyFull", "Empty" >> } ]_vars

\* C19 witness: a pop has taken a wrapped ring from PartiallyFull to
\* PartiallyFull.
C19_Witness ==
    /\ last.op = "pop"
    /\ capacity_ >= 3
    /\ size(this) = capacity_ - 2
    /\ Len(popped) >= 2
    /\ lower_bond_ = Base(this)

====
